---- MODULE Spec2Model ----
(***************************************************************************)
(* Model of the WhatsApp webhook relay: the POST /webhook route            *)
(* (app/routes.py), the message handler process_whatsapp_message           *)
(* (app/utils/whatsapp_utils.py) and the storage operations of             *)
(* app/services/database_service.py, over the tables declared in           *)
(* app/models.py; and, called by themselves, the storage functions, the    *)
(* signature check of app/decorators/security.py and the GET /webhook      *)
(* handshake.                                                              *)
(*                                                                         *)
(* Tables are sequences of rows; a row's id is its index (auto-increment). *)
(* Rows carry the fields database_service.py assigns.  The uniqueness      *)
(* constraints are those app/models.py declares: Company.name and          *)
(* WhatsappUser.wa_id.  models.py declares none on Conversation and none   *)
(* on Message.                                                             *)
(*                                                                         *)
(* Every request is served by its own thread.  A handler run is a process  *)
(* whose atomic steps are its storage round trips (a query, or an          *)
(* add + commit); the steps of different runs interleave freely.           *)
(***************************************************************************)
EXTENDS Integers, Sequences, FiniteSets, TLC

\* ------------------------------------------------------------------ bounds
MaxRuns == 2        \* webhook deliveries (handler runs) in one behaviour
MaxFaults == 1      \* storage errors (SQLAlchemyError) injected in one behaviour
MaxSvcCalls == 4    \* direct calls of database_service functions (SvcSpec)
MaxTimestamp == 2
MaxBatch == 3   \* clock readings a directly recorded message may carry

Runs == 1..MaxRuns

None == 0           \* Python None for an id or a row reference
NoMeta == "none"    \* Python None for meta_message_id

\* ------------------------------------------------------------------ inputs
Senders == {"wa1"}
MetaIds == {"m1", "m2"}

\* the display name the provider sends with a message
ProfileName(meta) == IF meta = "m1" THEN "Ann" ELSE "Anna"

\* message bodies, as sequences of characters
TextHi == <<"h","i">>
TextYes == <<"Y","e","s">>
Texts == {TextHi, TextYes}

\* message types the classifier accepts ("reaction" stands for every accepted
\* type the handler does not process)
KnownTypes == {"text", "image", "audio", "reaction"}

\* The deliveries: message m1 as a plain text, a text with a meeting keyword,
\* an image (the media branch, which audio shares) or a reaction; message m2 as
\* a plain text.  signed tells whether the request carries the
\* X-Hub-Signature-256 of its body under the app secret: the requests for m1
\* do, the request for m2 is one that anyone could post and does not.
\* contacts tells whether value.contacts[0].profile.name is in the payload:
\* one delivery of m1 comes without it.
MessagePayloads ==
    [shape : {"message"}, wa : Senders, meta : {"m1"}, type : {"text"}, text : Texts,
     signed : {TRUE}, contacts : {TRUE}]
    \cup
    [shape : {"message"}, wa : Senders, meta : {"m1"},
     type : {"image", "reaction"}, text : {<<>>}, signed : {TRUE}, contacts : {TRUE}]
    \cup
    [shape : {"message"}, wa : Senders, meta : {"m2"}, type : {"text"}, text : {TextHi},
     signed : {FALSE}, contacts : {TRUE}]
    \cup
    [shape : {"message"}, wa : Senders, meta : {"m1"}, type : {"text"}, text : {TextHi},
     signed : {TRUE}, contacts : {FALSE}]

OtherPayloads ==
    [shape : {"status", "unsupported"}, wa : {"-"}, meta : {NoMeta},
     type : {"-"}, text : {<<>>}, signed : {TRUE}, contacts : {FALSE}]

Payloads == MessagePayloads \cup OtherPayloads

NoPayload ==
    [shape |-> "unsupported", wa |-> "-", meta |-> NoMeta, type |-> "-", text |-> <<>>,
     signed |-> FALSE, contacts |-> FALSE]

\* ------------------------------------------------------------------ state
VARIABLES
    companies,      \* table companies: rows [name]
    users,          \* table whatsapp_users: rows [wa_id, name, company_id]
    conversations,  \* table conversations: rows [user_id, company_id, status]
    messages,       \* table messages: rows [conversation_id, sender_type, content,
                    \*      response_to_message_id, timestamp, meta_message_id]
    events,         \* table conversion_events: rows [conversation_id, event_type]
    calendly,       \* CALENDLY_LINK is configured
    aiUp,           \* gemini_service.model is initialised (ai_enabled)
    pc,             \* position of each handler run
    req,            \* the payload each run was delivered
    co, usr, conv,  \* each run's company.id, user.id, conversation.id
    handover,       \* each run's handover_triggered
    rec,            \* each run's call of record_message for the inbound message:
                    \* whether it was made, whether a row with the same
                    \* meta_message_id was stored at that moment, and its result
    out,            \* how process_whatsapp_message ended in each run
    http,           \* status of the POST /webhook response of each run (0: none yet)
    sent,           \* each run's calls of send_whatsapp_message, in order: the text
                    \* passed and whether the Graph API accepted it
    aiLog,          \* each run's calls of gemini_service.generate_response, in order:
                    \* the conversation_id passed
    stats,          \* table bot_statistics: rows [company_id, total_recipients,
                    \*                             total_conversions]
    upd,            \* each thread's call of update_bot_statistic_*: its position,
                    \* the counter it increments, the row it loaded and the
                    \* value it read
    connected_users, \* socketio_server.connected_users: the user_id stored for
                    \* each socket id (None: no entry)
    faults,         \* storage errors injected so far
    svc,            \* the last direct call of a database_service function
    nsvc            \* number of direct calls so far

dbVars == <<companies, users, conversations, messages, events>>
runVars == <<pc, req, co, usr, conv, handover, rec, out, http>>
statVars == <<stats, upd>>
vars == <<companies, users, conversations, messages, events, calendly, aiUp, stats, upd,
          connected_users,
          pc, req, co, usr, conv, handover, rec, out, http, sent, aiLog, faults,
          svc, nsvc>>

\* ------------------------------------------------------------------ text
\* str.lower() on the characters the inputs use
LowerChar(c) ==
    CASE c = "Y" -> "y"
      [] c = "E" -> "e"
      [] c = "S" -> "s"
      [] c = "H" -> "h"
      [] c = "I" -> "i"
      [] OTHER -> c

Lower(s) == [i \in 1..Len(s) |-> LowerChar(s[i])]

\* Python's `sub in s` on strings
Contains(s, sub) ==
    \E i \in 0..(Len(s) - Len(sub)) :
        \A j \in 1..Len(sub) : s[i + j] = sub[j]

MEETING_KEYWORDS ==
    << <<"s","c","h","e","d","u","l","e"," ","m","e","e","t","i","n","g">>,
       <<"b","o","o","k"," ","a"," ","m","e","e","t","i","n","g">>,
       <<"t","a","l","k"," ","t","o"," ","s","a","l","e","s">>,
       <<"b","o","o","k"," ","a"," ","c","a","l","l">>,
       <<"w","a","n","t"," ","t","h","e"," ","p","r","o","d","u","c","t">>,
       <<"y","e","s">>,
       <<"i","'","m"," ","i","n","t","e","r","e","s","t","e","d">>,
       <<"b","o","o","k"," ","n","o","w">>,
       <<"m","e","e","t","i","n","g">>,
       <<"s","a","l","e","s">> >>

\* the keyword loop of the text branch: some keyword is in the lowered body
HandoverTriggered(body) ==
    LET user_message_lower == Lower(body)
    IN  \E k \in 1..Len(MEETING_KEYWORDS) :
            Contains(user_message_lower, MEETING_KEYWORDS[k])

\* ------------------------------------------------------------------ storage
DefaultCompanyName == "My Bot Company"

\* Company.query.filter_by(name=name)
CompanyIdsByName(name) == {i \in 1..Len(companies) : companies[i].name = name}

\* WhatsAppUser.query.filter_by(wa_id=wa_id, company_id=company_id)
UserIds(wa, cid) ==
    {i \in 1..Len(users) : users[i].wa_id = wa /\ users[i].company_id = cid}

\* a query without the status filter
ActiveConvsAnyStatus(uid, cid) ==
    {i \in 1..Len(conversations) :
        /\ conversations[i].user_id = uid
        /\ conversations[i].company_id = cid}

\* a query that filters on the wrong status
ActiveConvsWrongStatus(uid, cid) ==
    {i \in 1..Len(conversations) :
        /\ conversations[i].user_id = uid
        /\ conversations[i].company_id = cid
        /\ conversations[i].status = "closed"}

\* Conversation.query.filter_by(user_id=user_id, company_id=company_id, status='active')
ActiveConvs(uid, cid) ==
    {i \in 1..Len(conversations) :
        /\ conversations[i].user_id = uid
        /\ conversations[i].company_id = cid
        /\ conversations[i].status = "active"}

\* Message.query.filter_by(meta_message_id=meta_message_id).first() is not None
has_meta_message_id_been_processed(meta) ==
    /\ meta # NoMeta
    /\ \E i \in 1..Len(messages) : messages[i].meta_message_id = meta

\* the unique=True columns: Company.name, WhatsappUser.wa_id
CompanyNameFree(name) == CompanyIdsByName(name) = {}
WaIdFree(wa) == \A i \in 1..Len(users) : users[i].wa_id # wa

\* A storage round trip succeeds, or raises SQLAlchemyError while the budget lasts.
StorageOutcomes == IF faults < MaxFaults THEN {TRUE, FALSE} ELSE {TRUE}

Charge(ok) == faults' = IF ok THEN faults ELSE faults + 1

\* the rows database_service.py builds
CompanyRow(name) == [name |-> name]
UserRow(wa, name, cid) == [wa_id |-> wa, name |-> name, company_id |-> cid]
ConversationRow(uid, cid) == [user_id |-> uid, company_id |-> cid, status |-> "active"]
MessageRow(cid, sender, content, respTo, ts, meta) ==
    [conversation_id |-> cid, sender_type |-> sender, content |-> content,
     response_to_message_id |-> respTo, timestamp |-> ts, meta_message_id |-> meta]

\* datetime.utcnow() as a handler run reads it: the clock ticks with every row
\* the table msgs holds
UtcNow(msgs) == Len(msgs) + 1
EventRow(cid, type) == [conversation_id |-> cid, event_type |-> type]

\* What record_message returns: the Message object it added when the commit
\* succeeded, None otherwise.  shape is the kind of Python value: "object" (a
\* Message), "none" (None) or "pair" (a 2-tuple (row, dup)).
RecordMessageResult(committed, id) ==
    IF committed
    THEN [shape |-> "object", row |-> id, dup |-> FALSE]
    ELSE [shape |-> "none", row |-> None, dup |-> FALSE]

NoRecord == [called |-> FALSE, seen |-> FALSE, result |-> RecordMessageResult(FALSE, None)]

\* `a, b = value`: only a 2-sequence unpacks; a Message object or None raises
\* TypeError.
Unpacks(value) == value.shape = "pair"

\* ------------------------------------------------------------------ POST /webhook
\* is_valid_whatsapp_message(body): the possible answers.
IsValidWhatsappMessage(p) == IF p.shape = "message" THEN {TRUE} ELSE BOOLEAN

\* a classifier that takes a statuses entry for a text message
GetWhatsappMessageTypeStatusAsText(p) ==
    IF p.shape = "message" /\ p.type \in KnownTypes THEN p.type
    ELSE IF p.shape = "status" THEN "text"
    ELSE "unsupported"

\* get_whatsapp_message_type(data)
GetWhatsappMessageType(p) ==
    IF p.shape = "message" /\ p.type \in KnownTypes THEN p.type
    ELSE IF p.shape = "status" THEN "status"
    ELSE "unsupported"

\* message['from'], change['value']['contacts'][0]['profile']['name'],
\* message['id'], change['value']['metadata']['phone_number_id']: plain
\* subscripts, so a payload without one of them raises KeyError
ExtractsCommonData(p) == p.contacts

\* how a call of process_whatsapp_message ends
Returned(code) == [kind |-> "return", code |-> code]
Raised == [kind |-> "raise", code |-> 0]
NotCalled == [kind |-> "none", code |-> 0]

\* a route that answers 200 whatever the handler did
WebhookPostStatusAlwaysOk(valid, o) == 200

\* a route that answers with the status the handler returned
WebhookPostStatusOfHandler(valid, o) ==
    IF valid /\ o.kind = "raise" THEN 500
    ELSE IF valid /\ o.kind = "return" THEN o.code
    ELSE 200

\* webhook_post: the handler's return value is discarded; only an exception
\* changes the response.
WebhookPostStatus(valid, o) ==
    IF valid /\ o.kind = "raise" THEN 500 ELSE 200

Finish(r, o) ==
    /\ pc' = [pc EXCEPT ![r] = "done"]
    /\ out' = [out EXCEPT ![r] = o]
    /\ http' = [http EXCEPT ![r] = WebhookPostStatus(TRUE, o)]

Goto(r, label) ==
    /\ pc' = [pc EXCEPT ![r] = label]
    /\ UNCHANGED <<out, http>>

\* get_or_create_company: the query
CompanyQuery(r) ==
    \E ok \in StorageOutcomes :
        /\ Charge(ok)
        /\ IF ~ok
           THEN Finish(r, Returned(500)) /\ UNCHANGED co
           ELSE IF CompanyIdsByName(DefaultCompanyName) # {}
           THEN /\ \E c \in CompanyIdsByName(DefaultCompanyName) :
                     co' = [co EXCEPT ![r] = c]
                /\ Goto(r, "user_q")
           ELSE Goto(r, "company_ins") /\ UNCHANGED co

\* webhook_post receives a payload; process_whatsapp_message classifies it and,
\* for a message, reads the sender's data and makes its first storage round
\* trip (the company query).
\* Requests are numbered in the order they arrive.
Deliver(r) ==
    /\ pc[r] = "idle"
    /\ \A q \in Runs : q < r => pc[q] # "idle"
    /\ \E p \in Payloads : \E valid \in IsValidWhatsappMessage(p) :
        /\ req' = [req EXCEPT ![r] = p]
        /\ IF ~valid
           THEN /\ pc' = [pc EXCEPT ![r] = "done"]
                /\ out' = [out EXCEPT ![r] = NotCalled]
                /\ http' = [http EXCEPT ![r] = WebhookPostStatus(FALSE, NotCalled)]
                /\ UNCHANGED <<co, faults>>
           ELSE IF GetWhatsappMessageType(p) = "status"
           THEN Finish(r, Returned(200)) /\ UNCHANGED <<co, faults>>
           ELSE IF GetWhatsappMessageType(p) = "unsupported"
           THEN Finish(r, Returned(400)) /\ UNCHANGED <<co, faults>>
           ELSE IF ~ExtractsCommonData(p)
           THEN Finish(r, Raised) /\ UNCHANGED <<co, faults>>
           ELSE CompanyQuery(r)
    /\ UNCHANGED <<dbVars, calendly, aiUp, statVars, connected_users, usr, conv, handover, rec, sent, aiLog,
                   svc, nsvc>>

\* get_or_create_company: db.session.add(company); commit_safely()
CompanyInsert(r) ==
    /\ pc[r] = "company_ins"
    /\ \E ok \in StorageOutcomes :
        /\ Charge(ok)
        /\ IF ok /\ CompanyNameFree(DefaultCompanyName)
           THEN /\ companies' = Append(companies, CompanyRow(DefaultCompanyName))
                /\ co' = [co EXCEPT ![r] = Len(companies) + 1]
                /\ Goto(r, "user_q")
           ELSE /\ Finish(r, Returned(500))
                /\ UNCHANGED <<companies, co>>
    /\ UNCHANGED <<users, conversations, messages, events, calendly, aiUp, statVars, connected_users, req, usr, conv,
                   handover, rec, sent, aiLog, svc, nsvc>>

\* a lookup that leaves the stored name as it is
RefreshedNameKept(stored, name, committed) == stored

\* get_or_create_whatsapp_user, user found: `if user.name != name:
\* user.name = name; commit_safely()`.  The name in the row afterwards.
RefreshedName(stored, name, committed) ==
    IF committed /\ stored # name THEN name ELSE stored

\* get_or_create_whatsapp_user: the query, and the name refresh of a found user
\* (the result of that refresh's commit_safely() is ignored)
UserQuery(r) ==
    /\ pc[r] = "user_q"
    /\ \E ok \in StorageOutcomes, ok2 \in StorageOutcomes :
        LET found == UserIds(req[r].wa, co[r])
            name == ProfileName(req[r].meta)
        IN  /\ ~ok2 => (ok /\ \E u \in found : users[u].name # name)
            /\ Charge(ok /\ ok2)
            /\ IF ~ok
               THEN Finish(r, Returned(500)) /\ UNCHANGED <<users, usr>>
               ELSE IF found # {}
               THEN \E u \in found :
                    /\ ~ok2 => users[u].name # name
                    /\ users' = [users EXCEPT ![u].name = RefreshedName(@, name, ok2)]
                    /\ usr' = [usr EXCEPT ![r] = u]
                    /\ Goto(r, "conv_q")
               ELSE Goto(r, "user_ins") /\ UNCHANGED <<users, usr>>
    /\ UNCHANGED <<companies, conversations, messages, events, calendly, aiUp, statVars, connected_users, req, co, conv,
                   handover, rec, sent, aiLog, svc, nsvc>>

\* get_or_create_whatsapp_user: db.session.add(user); commit_safely()
UserInsert(r) ==
    /\ pc[r] = "user_ins"
    /\ \E ok \in StorageOutcomes :
        /\ Charge(ok)
        /\ IF ok /\ WaIdFree(req[r].wa)
           THEN /\ users' = Append(users,
                        UserRow(req[r].wa, ProfileName(req[r].meta), co[r]))
                /\ usr' = [usr EXCEPT ![r] = Len(users) + 1]
                /\ Goto(r, "conv_q")
           ELSE /\ Finish(r, Returned(500))
                /\ UNCHANGED <<users, usr>>
    /\ UNCHANGED <<companies, conversations, messages, events, calendly, aiUp, statVars, connected_users, req, co, conv,
                   handover, rec, sent, aiLog, svc, nsvc>>

\* send_whatsapp_message(phone_number_id, to, text): one requests.post; a
\* RequestException is caught and the function returns False.  No caller looks
\* at the result.
Send(r, text, delivered) ==
    [sent EXCEPT ![r] = Append(@, [text |-> text, delivered |-> delivered])]

\* a handler that treats every other type as a text
MessageBranchOtherAsText(type) ==
    IF type \in {"image", "audio"} THEN "media" ELSE "text"

\* `if message['type'] == 'text': ... elif 'image': ... elif 'audio': ... else:`
MessageBranch(type) ==
    IF type = "text" THEN "text"
    ELSE IF type \in {"image", "audio"} THEN "media"
    ELSE "other"

\* a handler that goes on to record the message after a media failure
AfterMediaRecordsAnyway(fetched) == "record"

\* `if not media_url: ... return` / `if not image_data: ... return`: after a
\* failed retrieval or download the handler returns, otherwise it goes on to
\* record_message
AfterMedia(fetched) == IF fetched THEN "record" ELSE "done"

\* After the conversation is resolved: the branch on message['type'] up to the
\* next storage round trip.  For an image or an audio note, get_media_url and
\* download_media either deliver the media or fail; on failure an apology is
\* sent and the handler returns 500.
AfterSetup(r) ==
    LET p == req[r]
        handover_triggered == HandoverTriggered(p.text)
    IN
    IF MessageBranch(p.type) = "text"
    THEN /\ handover' = [handover EXCEPT ![r] = handover_triggered]
         /\ IF handover_triggered /\ calendly
            THEN Goto(r, "event")
            ELSE Goto(r, "record")
         /\ UNCHANGED sent
    ELSE IF MessageBranch(p.type) = "media"
    THEN /\ \E fetched \in BOOLEAN :
               /\ IF fetched
                  THEN UNCHANGED sent
                  ELSE \E delivered \in BOOLEAN : sent' = Send(r, "apology", delivered)
               /\ IF AfterMedia(fetched) = "record"
                  THEN Goto(r, "record")
                  ELSE Finish(r, Returned(500))
         /\ UNCHANGED handover
    ELSE Finish(r, Returned(200)) /\ UNCHANGED <<handover, sent>>

\* get_or_create_conversation: the query.  first() has no ORDER BY: any active
\* conversation of the pair may be the one returned.
ConvQuery(r) ==
    /\ pc[r] = "conv_q"
    /\ \E ok \in StorageOutcomes :
        /\ Charge(ok)
        /\ IF ~ok
           THEN Finish(r, Returned(500)) /\ UNCHANGED <<conv, handover, sent>>
           ELSE IF ActiveConvs(usr[r], co[r]) # {}
           THEN /\ \E c \in ActiveConvs(usr[r], co[r]) :
                     conv' = [conv EXCEPT ![r] = c]
                /\ AfterSetup(r)
           ELSE Goto(r, "conv_ins") /\ UNCHANGED <<conv, handover, sent>>
    /\ UNCHANGED <<dbVars, calendly, aiUp, statVars, connected_users, req, co, usr, rec, aiLog, svc, nsvc>>

\* get_or_create_conversation: db.session.add(conversation); commit_safely()
ConvInsert(r) ==
    /\ pc[r] = "conv_ins"
    /\ \E ok \in StorageOutcomes :
        /\ Charge(ok)
        /\ IF ok
           THEN /\ conversations' = Append(conversations, ConversationRow(usr[r], co[r]))
                /\ conv' = [conv EXCEPT ![r] = Len(conversations) + 1]
                /\ AfterSetup(r)
           ELSE /\ Finish(r, Returned(500))
                /\ UNCHANGED <<conversations, conv, handover, sent>>
    /\ UNCHANGED <<companies, users, messages, events, calendly, aiUp, statVars, connected_users, req, co, usr,
                   rec, aiLog, svc, nsvc>>

\* record_conversion_event(conversation_id, "meeting_scheduled_calendly", ...):
\* its result is ignored.
Event(r) ==
    /\ pc[r] = "event"
    /\ \E ok \in StorageOutcomes :
        /\ Charge(ok)
        /\ events' = IF ok
                     THEN Append(events, EventRow(conv[r], "meeting_scheduled_calendly"))
                     ELSE events
    /\ Goto(r, "record")
    /\ UNCHANGED <<companies, users, conversations, messages, calendly, aiUp, statVars, connected_users, req, co, usr,
                   conv, handover, rec, sent, aiLog, svc, nsvc>>

\* the text the run records for the inbound message
MessageContent(p) ==
    IF p.type = "text" THEN p.text
    ELSE IF p.type = "image" THEN <<"image">>
    ELSE <<"audio">>

\* generate_response(ai_input_parts, conversation_id): the model's text, or the
\* fixed apology when generate_content raised; the handler's own fixed text
\* when ai_enabled is false.
BotResponseText(enabled, answered) ==
    IF ~enabled THEN "offline"
    ELSE IF answered THEN "ai"
    ELSE "fallback"

\* bot_response_text of the handover branch: the text with CALENDLY_LINK in
\* it, or the fixed text saying that no booking link can be provided
HandoverText(linkConfigured) ==
    IF linkConfigured THEN "booking_link" ELSE "no_booking_link"

\* The rest of the handler once record_message has returned res for the
\* inbound message: the unpacking of res, then the handover reply or the AI
\* reply.  msgs is the messages table after that record_message; okBot is the
\* outcome of the bot row's commit, answered whether generate_content
\* answered, delivered whether the Graph API accepted the reply.
Reply(r, res, msgs, okBot, answered, delivered) ==
    LET text == IF handover[r] THEN HandoverText(calendly)
                ELSE BotResponseText(aiUp, answered)
        botRows == IF okBot
                   THEN Append(msgs, MessageRow(conv[r], "bot", <<text>>, res.row,
                                                UtcNow(msgs), NoMeta))
                   ELSE msgs
    IN
    IF ~Unpacks(res)
    THEN /\ Finish(r, Raised)
         /\ messages' = msgs
         /\ UNCHANGED <<sent, aiLog>>
    ELSE IF handover[r]
    THEN IF res.row = None \/ res.dup
         THEN /\ Finish(r, Returned(200))
              /\ messages' = msgs
              /\ UNCHANGED <<sent, aiLog>>
         ELSE /\ Finish(r, Returned(200))
              /\ messages' = botRows
              /\ sent' = Send(r, text, delivered)
              /\ UNCHANGED aiLog
    ELSE IF res.row = None
    THEN /\ Finish(r, Returned(500))
         /\ messages' = msgs
         /\ UNCHANGED <<sent, aiLog>>
    ELSE IF res.dup
    THEN /\ Finish(r, Returned(200))
         /\ messages' = msgs
         /\ UNCHANGED <<sent, aiLog>>
    ELSE /\ Finish(r, Returned(200))
         /\ aiLog' = IF aiUp THEN [aiLog EXCEPT ![r] = Append(@, conv[r])] ELSE aiLog
         /\ messages' = botRows
         /\ sent' = Send(r, text, delivered)

\* record_message(conversation_id, "user", message_content,
\*                meta_message_id=meta_message_id) and what follows it
Record(r) ==
    /\ pc[r] = "record"
    /\ \E ok \in StorageOutcomes, okBot \in StorageOutcomes, answered, delivered \in BOOLEAN :
        LET res == RecordMessageResult(ok, Len(messages) + 1)
            replies == Unpacks(res) /\ res.row # None /\ ~res.dup
        IN  /\ (~okBot \/ ~answered \/ ~delivered) => replies
            /\ Charge(ok /\ okBot)
            /\ rec' = [rec EXCEPT ![r] =
                         [called |-> TRUE,
                          seen |-> has_meta_message_id_been_processed(req[r].meta),
                          result |-> res]]
            /\ Reply(r, res,
                     IF ok
                     THEN Append(messages, MessageRow(conv[r], "user",
                                     MessageContent(req[r]), None, UtcNow(messages),
                                     req[r].meta))
                     ELSE messages,
                     okBot, answered, delivered)
    /\ UNCHANGED <<companies, users, conversations, events, calendly, aiUp, statVars, connected_users, req, co, usr,
                   conv, handover, svc, nsvc>>

\* ------------------------------------------------------------------ direct calls
\* The functions of database_service.py called by themselves, one call at a
\* time (a single thread): each call is one step.
SvcUserIds == {1, 2}
SvcCompanyIds == {1}
SvcStatuses == {"active", "closed"}
Timestamps == 1..MaxTimestamp

\* the messages recorded directly: a user message with and without a provider
\* id, and two bot messages
SvcMessages ==
    { [sender |-> "user", content |-> TextHi, meta |-> "m1"],
      [sender |-> "user", content |-> TextYes, meta |-> NoMeta],
      [sender |-> "bot", content |-> TextHi, meta |-> NoMeta],
      [sender |-> "bot", content |-> TextYes, meta |-> NoMeta] }

NoCall ==
    [op |-> "none", user_id |-> None, company_id |-> None, conversation_id |-> None,
     status |-> "-", meta |-> NoMeta, ret |-> RecordMessageResult(FALSE, None),
     created |-> FALSE]

\* get_or_create_conversation(user_id, company_id)
SvcGetOrCreateConversation(u, c) ==
    /\ nsvc < MaxSvcCalls
    /\ nsvc' = nsvc + 1
    /\ \E ok \in StorageOutcomes :
        /\ Charge(ok)
        /\ IF ~ok
           THEN /\ svc' = [NoCall EXCEPT !.op = "get_or_create_conversation",
                                        !.user_id = u, !.company_id = c]
                /\ UNCHANGED conversations
           ELSE IF ActiveConvs(u, c) # {}
           THEN /\ \E x \in ActiveConvs(u, c) :
                     svc' = [NoCall EXCEPT !.op = "get_or_create_conversation",
                                           !.user_id = u, !.company_id = c,
                                           !.conversation_id = x]
                /\ UNCHANGED conversations
           ELSE /\ conversations' = Append(conversations, ConversationRow(u, c))
                /\ svc' = [NoCall EXCEPT !.op = "get_or_create_conversation",
                                         !.user_id = u, !.company_id = c,
                                         !.conversation_id = Len(conversations) + 1,
                                         !.created = TRUE]
    /\ UNCHANGED <<companies, users, messages, events, calendly, aiUp, statVars, connected_users, runVars, sent, aiLog>>

\* update_conversation_status(conversation_id, status)
SvcUpdateConversationStatus(id, status) ==
    /\ nsvc < MaxSvcCalls
    /\ nsvc' = nsvc + 1
    /\ \E ok \in StorageOutcomes :
        /\ Charge(ok)
        /\ svc' = [NoCall EXCEPT !.op = "update_conversation_status",
                                 !.conversation_id = id, !.status = status]
        /\ conversations' = IF ok /\ id \in 1..Len(conversations)
                            THEN [conversations EXCEPT ![id].status = status]
                            ELSE conversations
    /\ UNCHANGED <<companies, users, messages, events, calendly, aiUp, statVars, connected_users, runVars, sent, aiLog>>

\* record_message(conversation_id, sender_type, content, response_to_message_id,
\*                meta_message_id); ts is what datetime.utcnow() reads, which
\* need not grow from one call to the next
SvcRecordMessage(cid, sender, content, respTo, meta, ts) ==
    /\ nsvc < MaxSvcCalls
    /\ nsvc' = nsvc + 1
    /\ \E ok \in StorageOutcomes :
        /\ Charge(ok)
        /\ svc' = [NoCall EXCEPT !.op = "record_message", !.conversation_id = cid,
                                 !.meta = meta,
                                 !.ret = RecordMessageResult(ok, Len(messages) + 1),
                                 !.created = ok]
        /\ messages' = IF ok
                       THEN Append(messages,
                                   MessageRow(cid, sender, content, respTo, ts, meta))
                       ELSE messages
    /\ UNCHANGED <<companies, users, conversations, events, calendly, aiUp, statVars, connected_users, runVars,
                   sent, aiLog>>

\* Message.query.filter_by(conversation_id=conversation_id)
MessageIdsOf(cid) == {k \in 1..Len(messages) : messages[k].conversation_id = cid}

\* a query that returns the rows in the order they were inserted
OrderedByInsertion(ids) ==
    {rows \in [1..Cardinality(ids) -> ids] :
        \A i, j \in 1..Cardinality(ids) : i < j => rows[i] < rows[j]}

\* .order_by(Message.timestamp.asc()).all(): the rows in every order the
\* storage may return them, rows of equal timestamp in any order
OrderedByTimestamp(ids) ==
    {rows \in [1..Cardinality(ids) -> ids] :
        /\ \A i, j \in 1..Cardinality(ids) : i # j => rows[i] # rows[j]
        /\ \A i, j \in 1..Cardinality(ids) :
              i < j => messages[rows[i]].timestamp <= messages[rows[j]].timestamp}

\* {'role': gemini_role, 'parts': [msg.content]}
HistoryEntry(msg) ==
    [role |-> IF msg.sender_type = "user" THEN "user" ELSE "model",
     parts |-> <<msg.content>>]

\* get_conversation_history_for_gemini(conversation_id): the list it returns
\* (empty on SQLAlchemyError); rows are the ids behind the entries
SvcGetConversationHistory(cid) ==
    /\ nsvc < MaxSvcCalls
    /\ nsvc' = nsvc + 1
    /\ \E ok \in StorageOutcomes :
        /\ Charge(ok)
        /\ IF ~ok
           THEN svc' = [op |-> "get_conversation_history_for_gemini",
                        conversation_id |-> cid, ok |-> FALSE,
                        rows |-> <<>>, history |-> <<>>]
           ELSE \E rows \in OrderedByTimestamp(MessageIdsOf(cid)) :
                    svc' = [op |-> "get_conversation_history_for_gemini",
                            conversation_id |-> cid, ok |-> TRUE,
                            rows |-> [i \in 1..Len(rows) |-> rows[i]],
                            history |-> [i \in 1..Len(rows) |->
                                            HistoryEntry(messages[rows[i]])]]
    /\ UNCHANGED <<dbVars, calendly, aiUp, statVars, connected_users, runVars, sent, aiLog>>

\* self.primer_messages: the persona primer and the model's first greeting
PrimerMessages ==
    << [role |-> "user", parts |-> << <<"p","e","r","s","o","n","a">> >>],
       [role |-> "model", parts |-> << <<"g","r","e","e","t","i","n","g">> >>] >>

\* contents.append({"role": "user", "parts": [{"text": user_message}]})
CurrentEntry(user_message) == [role |-> "user", parts |-> <<user_message>>]

\* generate_response: contents = primer_messages, then the history read from
\* the ledger (when it is not empty), then the current message
GenerateResponseContents(history, user_message) ==
    PrimerMessages \o history \o <<CurrentEntry(user_message)>>

\* generate_response(user_message, conversation_id) as the handler calls it:
\* for the inbound message whose row x record_message has already stored, with
\* that row's content and conversation.  rows are the ids behind the history
\* entries; a failed history query gives an empty history.
SvcGenerateResponse(x) ==
    /\ nsvc < MaxSvcCalls
    /\ nsvc' = nsvc + 1
    /\ messages[x].sender_type = "user"
    /\ \E ok \in StorageOutcomes :
        /\ Charge(ok)
        /\ \E rows \in (IF ok THEN OrderedByTimestamp(MessageIdsOf(messages[x].conversation_id))
                         ELSE {<<>>}) :
              svc' = [op |-> "generate_response",
                      conversation_id |-> messages[x].conversation_id,
                      current |-> x, ok |-> ok,
                      rows |-> [i \in 1..Len(rows) |-> rows[i]],
                      contents |-> GenerateResponseContents(
                                       [i \in 1..Len(rows) |-> HistoryEntry(messages[rows[i]])],
                                       messages[x].content)]
    /\ UNCHANGED <<dbVars, calendly, aiUp, statVars, connected_users, runVars, sent, aiLog>>

\* ------------------------------------------------------------------ payloads with several messages
\* process_whatsapp_message walks entry -> changes -> messages.  An item is one
\* step of that walk: a message of some type, or "empty", a change whose
\* messages list has nothing in it.
BatchKinds == {"empty", "text", "image", "reaction"}
Batches == UNION {[1..n -> BatchKinds] : n \in 1..MaxBatch}

\* the loop goes on to the next item
NextItem == [kind |-> "next", code |-> 0]

\* a handler whose else branch skips the message and goes on
MessageEndingsSkipOther(kind) ==
    IF kind = "empty" THEN {NextItem}
    ELSE IF kind = "reaction" THEN {Returned(500), NextItem}
    ELSE {Returned(500), Raised}

\* How the loop body ends for an item: every branch for a message is a return
\* statement (setup failure 500, media failure 500, the else branch 200) or
\* the TypeError of the unpacking after record_message; only a change without
\* messages falls through to the next iteration.
MessageEndings(kind) ==
    IF kind = "empty" THEN {NextItem}
    ELSE IF kind = "reaction" THEN {Returned(500), Returned(200)}
    ELSE {Returned(500), Raised}

\* The walk from item i on, in every way it can go: the items whose handling
\* was started, and how the call ends (the last line of the function returns
\* "Message processed", 200).
RECURSIVE Walk(_, _)
Walk(items, i) ==
    IF i > Len(items) THEN {[handled |-> <<>>, out |-> Returned(200)]}
    ELSE UNION { IF e = NextItem
                 THEN {[handled |-> (IF items[i] = "empty" THEN <<>> ELSE <<i>>) \o rest.handled,
                        out |-> rest.out] : rest \in Walk(items, i + 1)}
                 ELSE {[handled |-> <<i>>, out |-> e]}
                 : e \in MessageEndings(items[i]) }

\* process_whatsapp_message(data) for a payload with the items given
SvcProcessBatch(items) ==
    /\ \E w \in Walk(items, 1) :
          svc' = [op |-> "process_whatsapp_message", items |-> items,
                  handled |-> w.handled, out |-> w.out]
    /\ UNCHANGED <<dbVars, calendly, aiUp, statVars, connected_users, runVars, sent, aiLog, faults, nsvc>>

\* ------------------------------------------------------------------ bot statistics
\* update_bot_statistic_conversions and update_bot_statistic_recipients, called
\* from concurrent threads, each with its own session.  A call loads the
\* company's row (get_bot_statistic_for_company), adds one to the loaded
\* attribute in Python and commits, which writes that value back.
StatCounters == {"total_conversions", "total_recipients"}
StatCompany == 1

StatRow(cid) == [company_id |-> cid, total_recipients |-> 0, total_conversions |-> 0]

\* BotStatistic.query.filter_by(company_id=company_id)
StatIds(cid) == {i \in 1..Len(stats) : stats[i].company_id = cid}

NoUpdate ==
    [pc |-> "idle", counter |-> "-", row |-> None, read |-> 0,
     returned |-> [c \in StatCounters |-> 0]]

\* the call returns True
StatReturnsTrue(r) ==
    [upd[r] EXCEPT !.pc = "idle",
                   !.returned = [@ EXCEPT ![upd[r].counter] = @ + 1]]

\* the call returns False
StatReturnsFalse(r) == [upd[r] EXCEPT !.pc = "idle"]

\* update_bot_statistic_*(company_id) starts: the query of
\* get_bot_statistic_for_company, which loads the row's attributes
StatQuery(r, counter) ==
    /\ upd[r].pc = "idle"
    /\ nsvc < MaxSvcCalls
    /\ nsvc' = nsvc + 1
    /\ \E ok \in StorageOutcomes :
        /\ Charge(ok)
        /\ IF ~ok
           THEN upd' = [upd EXCEPT ![r] = [@ EXCEPT !.pc = "idle", !.counter = counter]]
           ELSE IF StatIds(StatCompany) # {}
           THEN \E i \in StatIds(StatCompany) :
                    upd' = [upd EXCEPT ![r] = [@ EXCEPT !.pc = "commit",
                                                        !.counter = counter, !.row = i,
                                                        !.read = stats[i][counter]]]
           ELSE upd' = [upd EXCEPT ![r] = [@ EXCEPT !.pc = "insert", !.counter = counter]]
    /\ UNCHANGED <<dbVars, calendly, aiUp, stats, runVars, sent, aiLog, svc, connected_users>>

\* get_bot_statistic_for_company: db.session.add(stats); commit_safely(), whose
\* result is ignored.  After a failed commit the object is no longer in the
\* session: the increment and the second commit touch no row, and the call
\* returns True.
StatInsert(r) ==
    /\ upd[r].pc = "insert"
    /\ \E ok \in StorageOutcomes :
        /\ Charge(ok)
        /\ IF ok
           THEN /\ stats' = Append(stats, StatRow(StatCompany))
                /\ upd' = [upd EXCEPT ![r] = [@ EXCEPT !.pc = "reload",
                                                       !.row = Len(stats) + 1]]
           ELSE /\ upd' = [upd EXCEPT ![r] = StatReturnsTrue(r)]
                /\ UNCHANGED stats
    /\ UNCHANGED <<dbVars, calendly, aiUp, runVars, sent, aiLog, svc, nsvc, connected_users>>

\* stats.total_* += 1 on the row just committed: the commit expired its
\* attributes, so the read is a new SELECT
StatReload(r) ==
    /\ upd[r].pc = "reload"
    /\ \E ok \in StorageOutcomes :
        /\ Charge(ok)
        /\ upd' = [upd EXCEPT ![r] =
                     IF ok
                     THEN [@ EXCEPT !.pc = "commit", !.read = stats[upd[r].row][upd[r].counter]]
                     ELSE StatReturnsFalse(r)]
    /\ UNCHANGED <<dbVars, calendly, aiUp, stats, runVars, sent, aiLog, svc, nsvc, connected_users>>

\* commit_safely(): UPDATE bot_statistics SET total_* = <the value read + 1>;
\* its result is ignored and the call returns True
StatCommit(r) ==
    /\ upd[r].pc = "commit"
    /\ \E ok \in StorageOutcomes :
        /\ Charge(ok)
        /\ stats' = IF ok
                    THEN [stats EXCEPT ![upd[r].row][upd[r].counter] = upd[r].read + 1]
                    ELSE stats
        /\ upd' = [upd EXCEPT ![r] = StatReturnsTrue(r)]
    /\ UNCHANGED <<dbVars, calendly, aiUp, runVars, sent, aiLog, svc, nsvc, connected_users>>

\* ------------------------------------------------------------------ POST /api/v1/chat/send
\* ChatResource.post and the background task it hands the reply to.
ChatUserIds == {1, 2, 3}
ChatCompany == 1

\* User.query.get(user_id): the users that exist
ChatUsers == SvcUserIds

\* what the background task has emitted to the user's room
NoEmit == "none"

\* process_and_respond(user_id, user_name, conversation_id, user_message_id,
\* user_text): generate_contextual_response, then record_message for the bot
\* row, `bot_message, _ = ...`, then socketio.emit('new_message', ...); any
\* exception emits 'error' instead.  msgs is the messages table when the task
\* runs; the result is the table afterwards and what was emitted.
ProcessAndRespond(msgs, cid, user_message_id, okBot) ==
    LET res == RecordMessageResult(okBot, Len(msgs) + 1)
        rows == IF okBot
                THEN Append(msgs, MessageRow(cid, "bot", <<"ai">>, user_message_id,
                                             UtcNow(msgs), NoMeta))
                ELSE msgs
    IN  [messages |-> rows,
         emitted |-> IF Unpacks(res) /\ res.row # None THEN "new_message" ELSE "error"]

\* ChatResource.post for the user user_id with the message text; a call is one
\* step, the background task included when it is started.
ChatPost(user_id, text) ==
    /\ nsvc < MaxSvcCalls
    /\ nsvc' = nsvc + 1
    /\ \E okConv \in StorageOutcomes, okMsg \in StorageOutcomes, okBot \in StorageOutcomes :
        LET call == [op |-> "ChatResource.post", user_id |-> user_id,
                     conversation_id |-> None, ret |-> RecordMessageResult(FALSE, None),
                     code |-> 0, task |-> FALSE, emitted |-> NoEmit]
            found == ActiveConvs(user_id, ChatCompany)
        IN
        /\ ~okMsg => (okConv /\ user_id \in ChatUsers)
        /\ ~okBot => (okConv /\ okMsg /\ user_id \in ChatUsers
                       /\ Unpacks(RecordMessageResult(okMsg, Len(messages) + 1)))
        /\ Charge(okConv /\ okMsg /\ okBot)
        /\ IF user_id \notin ChatUsers
           THEN /\ svc' = [call EXCEPT !.code = 404]
                /\ UNCHANGED <<conversations, messages>>
           ELSE IF ~okConv
           THEN \* conversation is None: conversation.id raises AttributeError
                /\ svc' = [call EXCEPT !.code = 500]
                /\ UNCHANGED <<conversations, messages>>
           ELSE \E cid \in (IF found # {} THEN found ELSE {Len(conversations) + 1}) :
                LET res == RecordMessageResult(okMsg, Len(messages) + 1)
                    msgs == IF okMsg
                            THEN Append(messages, MessageRow(cid, "user", text, None,
                                                             UtcNow(messages), NoMeta))
                            ELSE messages
                    bg == ProcessAndRespond(msgs, cid, res.row, okBot)
                IN  /\ conversations' = IF found # {} THEN conversations
                                        ELSE Append(conversations,
                                                    ConversationRow(user_id, ChatCompany))
                    /\ IF ~Unpacks(res)
                       THEN \* TypeError, caught by `except Exception`
                            /\ svc' = [call EXCEPT !.conversation_id = cid, !.ret = res,
                                                   !.code = 500]
                            /\ messages' = msgs
                       ELSE IF res.dup
                       THEN /\ svc' = [call EXCEPT !.conversation_id = cid, !.ret = res,
                                                   !.code = 200]
                            /\ messages' = msgs
                       ELSE /\ svc' = [call EXCEPT !.conversation_id = cid, !.ret = res,
                                                   !.code = 202, !.task = TRUE,
                                                   !.emitted = bg.emitted]
                            /\ messages' = bg.messages
    /\ UNCHANGED <<companies, users, events, calendly, aiUp, statVars, connected_users, runVars, sent, aiLog>>

\* ------------------------------------------------------------------ websocket
\* socketio_server.py: the sockets, the tokens a client may present at connect
\* (none, one that does not decode, one for each user) and the events.
Sids == {"s1", "s2"}
NoToken == <<"none", None>>
BadToken == <<"bad", None>>
Tokens == {NoToken, BadToken} \cup {<<"jwt", u>> : u \in ChatUsers}

\* decode_token(token)['sub']: the identity in a token that decodes
TokenSub(token) == token[2]

\* handle_connect(auth): a socket with a valid token gets its entry in
\* connected_users; any other is disconnected
WsConnect(sid, token) ==
    /\ connected_users' = IF token \in {NoToken, BadToken} THEN connected_users
                          ELSE [connected_users EXCEPT ![sid] = TokenSub(token)]
    /\ UNCHANGED <<dbVars, calendly, aiUp, statVars, runVars, sent, aiLog, faults, svc, nsvc>>

\* handle_disconnect()
WsDisconnect(sid) ==
    /\ connected_users[sid] # None
    /\ connected_users' = [connected_users EXCEPT ![sid] = None]
    /\ UNCHANGED <<dbVars, calendly, aiUp, statVars, runVars, sent, aiLog, faults, svc, nsvc>>

\* handle_message(data) on socket sid, data = {message: text, conversation_id:
\* cid} (cid None: not given).  wrote is the id of the user Message row the
\* call stored (None: none), emitted the event it answers with.
WsSendMessage(sid, cid, text) ==
    /\ nsvc < MaxSvcCalls
    /\ nsvc' = nsvc + 1
    /\ \E okConv \in StorageOutcomes, okMsg \in StorageOutcomes :
        LET user_id == connected_users[sid]
            call == [op |-> "handle_message", sid |-> sid, user_id |-> user_id,
                     conversation_id |-> cid, wrote |-> None, emitted |-> "error"]
            found == ActiveConvs(user_id, ChatCompany)
        IN
        /\ ~okConv => (user_id # None /\ cid = None)
        /\ ~okMsg => (user_id # None /\ okConv)
        /\ Charge(okConv /\ okMsg)
        /\ IF user_id = None
           THEN \* 'Not authenticated'
                /\ svc' = call
                /\ UNCHANGED <<conversations, messages>>
           ELSE IF cid = None /\ ~okConv
           THEN \* conversation is None: conversation.id raises AttributeError
                /\ svc' = call
                /\ UNCHANGED <<conversations, messages>>
           ELSE \E conversation_id \in
                    (IF cid # None THEN {cid}
                     ELSE IF found # {} THEN found ELSE {Len(conversations) + 1}) :
                LET res == RecordMessageResult(okMsg, Len(messages) + 1)
                    msgs == IF okMsg
                            THEN Append(messages,
                                        MessageRow(conversation_id, "user", text, None,
                                                   UtcNow(messages), NoMeta))
                            ELSE messages
                    \* lines 124-147: the AI call, the bot row, the emit
                    bg == ProcessAndRespond(msgs, conversation_id, res.row, TRUE)
                IN  /\ conversations' = IF cid # None \/ found # {} THEN conversations
                                        ELSE Append(conversations,
                                                    ConversationRow(user_id, ChatCompany))
                    /\ IF ~Unpacks(res)
                       THEN \* TypeError, caught by `except Exception`
                            /\ svc' = [call EXCEPT !.conversation_id = conversation_id,
                                                   !.wrote = res.row]
                            /\ messages' = msgs
                       ELSE IF res.dup
                       THEN /\ svc' = [call EXCEPT !.conversation_id = conversation_id,
                                                   !.wrote = res.row,
                                                   !.emitted = "message_status"]
                            /\ messages' = msgs
                       ELSE /\ svc' = [call EXCEPT !.conversation_id = conversation_id,
                                                   !.wrote = res.row,
                                                   !.emitted = bg.emitted]
                            /\ messages' = bg.messages
    /\ UNCHANGED <<companies, users, events, calendly, aiUp, statVars, connected_users,
                   runVars, sent, aiLog>>

\* ------------------------------------------------------------------ request gates
\* signature_required (app/decorators/security.py) and verify_webhook, called
\* by themselves.  A header is a sequence of tokens: "=" is the character the
\* decorator splits on, every other token stands for a run of characters.
NoSecret == ""              \* APP_SECRET is not configured
AppSecrets == {NoSecret, "k1"}
SignerKeys == {"k1", "k2"}
Bodies == {"b1", "b2"}

\* hmac.new(key, body, hashlib.sha256).hexdigest(): one token per (key, body)
HmacSha256Hex(key, body) == "hmac(" \o key \o "," \o body \o ")"

\* a token with a character outside ASCII
NonAsciiToken == "e-acute"

SignatureHeaders ==
    { <<>>,                                                \* no header, or an empty one
      <<"sha256">>,                                        \* no "="
      <<"sha1", "=", HmacSha256Hex("k1", "b1")>>,          \* another algorithm
      <<"sha256", "=", "abc", "=">>,                       \* a second "="
      <<"sha256", "=">>,                                   \* an empty value
      <<"sha256", "=", NonAsciiToken>> }
    \cup { <<"sha256", "=", HmacSha256Hex(k, b)>> : k \in SignerKeys, b \in Bodies }

\* str.split("="): the pieces between the "=" tokens
RECURSIVE Split(_)
Split(h) ==
    IF h = <<>> THEN << <<>> >>
    ELSE LET rest == Split(Tail(h))
         IN  IF Head(h) = "="
             THEN << <<>> >> \o rest
             ELSE << <<Head(h)>> \o Head(rest) >> \o Tail(rest)

\* what the decorated function does: the status it aborts with, or the call
\* of the wrapped handler f (which answers 200 here)
Aborted(status) == [status |-> status, ran |-> FALSE]
Wrapped == [status |-> 200, ran |-> TRUE]

\* a decorator that accepts every header of the right shape
SignatureRequiredAnyDigest(secret, header, body) ==
    IF secret = NoSecret THEN Aborted(500)
    ELSE IF header = <<>> THEN Aborted(400)
    ELSE IF Len(Split(header)) # 2 \/ Split(header)[1] # <<"sha256">> THEN Aborted(400)
    ELSE Wrapped

\* a decorator that goes on without a configured secret
SignatureRequiredSecretOptional(secret, header, body) ==
    IF header = <<>> THEN Aborted(400)
    ELSE IF Len(Split(header)) # 2 \/ Split(header)[1] # <<"sha256">> THEN Aborted(400)
    ELSE IF Split(header)[2] # <<HmacSha256Hex(secret, body)>> THEN Aborted(403)
    ELSE Wrapped

\* signature_required.decorated_function.  `sha_name, signature = parts`
\* raises ValueError unless there are two parts; hmac.compare_digest raises
\* TypeError on a str that is not ASCII, which the server answers with 500.
SignatureRequired(secret, header, body) ==
    IF secret = NoSecret THEN Aborted(500)
    ELSE IF header = <<>> THEN Aborted(400)
    ELSE LET parts == Split(header)
         IN  IF Len(parts) # 2 THEN Aborted(400)
             ELSE IF parts[1] # <<"sha256">> THEN Aborted(400)
             ELSE IF \E i \in 1..Len(parts[2]) : parts[2][i] = NonAsciiToken
             THEN Aborted(500)
             ELSE IF parts[2] # <<HmacSha256Hex(secret, body)>> THEN Aborted(403)
             ELSE Wrapped

\* a POST to a route wrapped in signature_required
CallSignatureRequired(secret, header, body) ==
    /\ nsvc < MaxSvcCalls
    /\ nsvc' = nsvc + 1
    /\ svc' = [op |-> "signature_required", secret |-> secret, header |-> header,
               body |-> body,
               status |-> SignatureRequired(secret, header, body).status,
               ran |-> SignatureRequired(secret, header, body).ran]
    /\ UNCHANGED <<dbVars, calendly, aiUp, statVars, connected_users, runVars, sent, aiLog, faults>>

\* GET /webhook: request.args.get gives None for a parameter that is not there
NoArg == "(none)"
VERIFY_TOKEN == "token"
HubModes == {NoArg, "", "subscribe", "unsubscribe"}
HubTokens == {NoArg, VERIFY_TOKEN, "guess"}
HubChallenges == {NoArg, "123"}

\* Python truth of an optional string
Truthy(x) == x # NoArg /\ x # ""

\* verify_webhook.  A view that returns (None, 200) makes Flask raise
\* TypeError ("did not return a valid response"), which it answers with 500.
VerifyWebhook(mode, token, challenge) ==
    IF Truthy(mode) /\ Truthy(token)
    THEN IF mode = "subscribe" /\ token = VERIFY_TOKEN
         THEN IF challenge = NoArg
              THEN [status |-> 500, body |-> "error"]
              ELSE [status |-> 200, body |-> challenge]
         ELSE [status |-> 403, body |-> "error"]
    ELSE [status |-> 400, body |-> "error"]

CallVerifyWebhook(mode, token, challenge) ==
    /\ nsvc < MaxSvcCalls
    /\ nsvc' = nsvc + 1
    /\ svc' = [op |-> "verify_webhook", mode |-> mode, token |-> token,
               challenge |-> challenge,
               status |-> VerifyWebhook(mode, token, challenge).status,
               body |-> VerifyWebhook(mode, token, challenge).body]
    /\ UNCHANGED <<dbVars, calendly, aiUp, statVars, connected_users, runVars, sent, aiLog, faults>>

\* ------------------------------------------------------------------ specifications
Init ==
    /\ companies = <<>>
    /\ users = <<>>
    /\ conversations = <<>>
    /\ messages = <<>>
    /\ events = <<>>
    /\ calendly \in BOOLEAN
    /\ aiUp \in BOOLEAN
    /\ pc = [r \in Runs |-> "idle"]
    /\ req = [r \in Runs |-> NoPayload]
    /\ co = [r \in Runs |-> None]
    /\ usr = [r \in Runs |-> None]
    /\ conv = [r \in Runs |-> None]
    /\ handover = [r \in Runs |-> FALSE]
    /\ rec = [r \in Runs |-> NoRecord]
    /\ out = [r \in Runs |-> NotCalled]
    /\ http = [r \in Runs |-> 0]
    /\ sent = [r \in Runs |-> <<>>]
    /\ aiLog = [r \in Runs |-> <<>>]
    /\ stats = <<>>
    /\ upd = [r \in Runs |-> NoUpdate]
    /\ connected_users = [sid \in Sids |-> None]
    /\ faults = 0
    /\ svc = NoCall
    /\ nsvc = 0

\* the webhook: concurrent handler runs
Next ==
    \E r \in Runs :
        \/ Deliver(r)
        \/ CompanyInsert(r)
        \/ UserQuery(r)
        \/ UserInsert(r)
        \/ ConvQuery(r)
        \/ ConvInsert(r)
        \/ Event(r)
        \/ Record(r)

Spec == Init /\ [][Next]_vars

\* the storage service called directly, sequentially
SvcNext ==
    \/ \E u \in SvcUserIds, c \in SvcCompanyIds : SvcGetOrCreateConversation(u, c)
    \/ \E id \in 1..(Len(conversations) + 1), st \in SvcStatuses :
           SvcUpdateConversationStatus(id, st)
    \/ \E cid \in 1..Len(conversations), m \in SvcMessages, ts \in Timestamps :
           SvcRecordMessage(cid, m.sender, m.content, None, m.meta, ts)
    \/ \E cid \in 1..Len(conversations) : SvcGetConversationHistory(cid)

SvcSpec == Init /\ [][SvcNext]_vars

\* the context of an AI call built for messages recorded before
CtxNext ==
    \/ \E u \in SvcUserIds, c \in SvcCompanyIds : SvcGetOrCreateConversation(u, c)
    \/ \E cid \in 1..Len(conversations), m \in SvcMessages, ts \in Timestamps :
           SvcRecordMessage(cid, m.sender, m.content, None, m.meta, ts)
    \/ \E x \in 1..Len(messages) : SvcGenerateResponse(x)

CtxSpec == Init /\ [][CtxNext]_vars

\* the handler called on payloads with several messages
BatchNext == \E items \in Batches : SvcProcessBatch(items)

BatchSpec == Init /\ [][BatchNext]_vars

\* the websocket events, one at a time
WsNext ==
    \/ \E sid \in Sids, token \in Tokens : WsConnect(sid, token)
    \/ \E sid \in Sids : WsDisconnect(sid)
    \/ \E sid \in Sids, cid \in {None} \cup (1..Len(conversations)), text \in Texts :
           WsSendMessage(sid, cid, text)

WsSpec == Init /\ [][WsNext]_vars

\* the request gates called directly
GateNext ==
    \/ \E secret \in AppSecrets, header \in SignatureHeaders, body \in Bodies :
           CallSignatureRequired(secret, header, body)
    \/ \E mode \in HubModes, token \in HubTokens, challenge \in HubChallenges :
           CallVerifyWebhook(mode, token, challenge)

GateSpec == Init /\ [][GateNext]_vars

\* the statistic counters incremented from concurrent threads
StatNext ==
    \E r \in Runs :
        \/ \E counter \in StatCounters : StatQuery(r, counter)
        \/ StatInsert(r)
        \/ StatReload(r)
        \/ StatCommit(r)

StatSpec == Init /\ [][StatNext]_vars

\* the chat endpoint called by itself, one request at a time
ChatNext == \E user_id \in ChatUserIds, text \in Texts : ChatPost(user_id, text)

ChatSpec == Init /\ [][ChatNext]_vars

\* ------------------------------------------------------------------ properties
RunsOf(m) == {r \in Runs : pc[r] # "idle" /\ req[r].shape = "message" /\ req[r].meta = m}

Stored(m) == {i \in 1..Len(messages) : messages[i].meta_message_id = m}

\* every delivery of m so far has been answered, and there is at least one
Settled(m) == RunsOf(m) # {} /\ \A r \in RunsOf(m) : pc[r] = "done"

\* the calls of a collaborator made by the runs that were delivered m
CallsFor(log, m) == {<<r, i>> \in Runs \X (1..2) : r \in RunsOf(m) /\ i <= Len(log[r])}

Is2xx(status) == status >= 200 /\ status <= 299

\* C1: in no reachable state do two Message rows share a non-null provider
\* message id, however often the id was delivered.
C1_ProviderIdUnique ==
    \A i, j \in 1..Len(messages) :
        (i # j /\ messages[i].meta_message_id # NoMeta)
            => messages[i].meta_message_id # messages[j].meta_message_id

\* C2: once every delivery of a provider message id that reached the AI path
\* and has its inbound row stored is answered, exactly one call of
\* generate_response has been made for it.
C2_ExactlyOneAiCall ==
    \A m \in MetaIds :
        (/\ Settled(m)
         /\ Stored(m) # {}
         /\ \A r \in RunsOf(m) : req[r].type = "text" /\ ~HandoverTriggered(req[r].text))
            => Cardinality(CallsFor(aiLog, m)) = 1

\* C3: once every delivery of a provider message id whose inbound row is
\* stored is answered, send_whatsapp_message has been called exactly once for it.
C3_ExactlyOneReply ==
    \A m \in MetaIds :
        (Settled(m) /\ Stored(m) # {})
            => Cardinality(CallsFor(sent, m)) = 1

\* C4: a run calls the AI or sends only after it has recorded its inbound
\* message (the duplicate decision); and a run whose provider message id was
\* already stored when it recorded makes no AI call, sends nothing and ends
\* with HTTP 200.
C4_DedupBeforeEffects ==
    \A r \in Runs :
        /\ (sent[r] # <<>> \/ aiLog[r] # <<>>) => rec[r].called
        /\ (pc[r] = "done" /\ rec[r].called /\ rec[r].seen)
              => (sent[r] = <<>> /\ aiLog[r] = <<>> /\ http[r] = 200)

\* C5: a run whose record_message for the inbound message yielded no row is
\* answered with a non-2xx status, and makes no AI call and sends nothing,
\* on the AI path and on the handover path alike.
C5_RecordFailureIsRetryable ==
    \A r \in Runs :
        (pc[r] = "done" /\ rec[r].called /\ rec[r].result.row = None)
            => (~Is2xx(http[r]) /\ sent[r] = <<>> /\ aiLog[r] = <<>>)

\* a handover run and the failure of its record_message
C5_Witness ==
    \E r \in Runs :
        /\ pc[r] = "done" /\ handover[r]
        /\ rec[r].called /\ rec[r].result.row = None
        /\ http[r] = 500

\* C6: a run that records a provider message id already stored by another
\* delivery gets the stored row with is_duplicate = true, adds no row, and ends
\* with HTTP 200.
C6_RaceLoserIsDuplicate ==
    \A r \in Runs :
        (pc[r] = "done" /\ rec[r].called /\ rec[r].seen)
            => /\ rec[r].result.shape = "pair" /\ rec[r].result.dup
               /\ rec[r].result.row \in Stored(req[r].meta)
               /\ Cardinality(Stored(req[r].meta)) = 1
               /\ http[r] = 200

\* C7: a call of record_message without a provider message id inserts a new
\* row and reports is_duplicate = false.
C7_NoIdInsertsAndReportsFresh ==
    (svc.op = "record_message" /\ svc.meta = NoMeta)
        => /\ svc.ret.shape = "pair" /\ ~svc.ret.dup
           /\ svc.created /\ svc.ret.row = Len(messages)

\* the pair's conversations whose status is 'active'
ActiveOf(u, c) ==
    {i \in 1..Len(conversations) :
        /\ conversations[i].user_id = u
        /\ conversations[i].company_id = c
        /\ conversations[i].status = "active"}

\* C8: a call of get_or_create_conversation made while the pair has its one
\* active conversation creates no Conversation row, and the conversation it
\* returns is that one.
C8_SequentialReuse ==
    [][\A u \in SvcUserIds, c \in SvcCompanyIds :
          (/\ nsvc' = nsvc + 1
           /\ svc'.op = "get_or_create_conversation"
           /\ svc'.user_id = u /\ svc'.company_id = c
           /\ Cardinality(ActiveOf(u, c)) = 1)
             => /\ conversations' = conversations
                /\ svc'.conversation_id \in ActiveOf(u, c) \cup {None}]_vars

\* a second call for a pair returned the conversation the first one created
C8_Witness ==
    /\ nsvc >= 2
    /\ svc.op = "get_or_create_conversation"
    /\ ~svc.created
    /\ svc.conversation_id # None
    /\ Len(conversations) = 1
    /\ conversations[svc.conversation_id].user_id = svc.user_id

\* C9: the runs of one (user, company) pair all obtain the same conversation
\* id, and one Conversation row exists for the pair, under every interleaving.
C9_ConcurrentFirstContact ==
    /\ \A r1, r2 \in Runs :
          (conv[r1] # None /\ conv[r2] # None /\ usr[r1] = usr[r2] /\ co[r1] = co[r2])
              => conv[r1] = conv[r2]
    /\ \A i, j \in 1..Len(conversations) :
          (conversations[i].user_id = conversations[j].user_id
             /\ conversations[i].company_id = conversations[j].company_id)
              => i = j

\* C10: each (user, company) pair has at most one conversation with status
\* 'active'.
C10_AtMostOneActive ==
    \A u \in SvcUserIds, c \in SvcCompanyIds : Cardinality(ActiveOf(u, c)) <= 1

\* the bot rows stored as the reply to message row x
LinkedBotRows(x) ==
    {k \in 1..Len(messages) :
        messages[k].sender_type = "bot" /\ messages[k].response_to_message_id = x}

\* C11: every text a run has passed to send_whatsapp_message is the content of
\* a bot Message row already stored in the run's conversation.
C11_BotRowBeforeSend ==
    \A r \in Runs : \A i \in 1..Len(sent[r]) :
        \E k \in 1..Len(messages) :
            /\ messages[k].sender_type = "bot"
            /\ messages[k].conversation_id = conv[r]
            /\ messages[k].content = <<sent[r][i].text>>

\* C12: a run that has stored a plain text message while the AI model is
\* unavailable ends with the fixed fallback text stored as a bot row linked to
\* the inbound row, that text sent, and a 2xx response.
C12_AiFailureStillAnswers ==
    \A r \in Runs :
        (/\ pc[r] = "done" /\ ~aiUp
         /\ req[r].type = "text" /\ ~handover[r]
         /\ rec[r].called /\ rec[r].result.row # None)
            => /\ \E k \in LinkedBotRows(rec[r].result.row) :
                     messages[k].content \in {<<"offline">>, <<"fallback">>}
               /\ Len(sent[r]) = 1
               /\ Is2xx(http[r])

C14_SetupFailureAborts ==
    \A r \in Runs :
        (pc[r] = "done" /\ out[r] = Returned(500) /\ conv[r] = None)
            => /\ ~Is2xx(http[r])
               /\ ~rec[r].called
               /\ sent[r] = <<>> /\ aiLog[r] = <<>>

\* C16: a run resolves a company, a user or a conversation, records a message
\* or sends only for a request that carries a valid signature of its body.
C16_OnlySignedProcessed ==
    \A r \in Runs :
        (co[r] # None \/ rec[r].called \/ sent[r] # <<>> \/ aiLog[r] # <<>>)
            => req[r].signed

\* C20: once a run that stored its inbound message has ended, exactly one bot
\* row is linked to that inbound row.
C20_OneLinkedBotRow ==
    \A r \in Runs :
        (pc[r] = "done" /\ rec[r].called /\ rec[r].result.row # None)
            => Cardinality(LinkedBotRows(rec[r].result.row)) = 1

\* the header the provider computes for a body under a key
SignedHeader(key, body) == <<"sha256", "=", HmacSha256Hex(key, body)>>

\* C15: with the secret configured, the wrapped handler runs exactly when the
\* header is sha256= followed by the HMAC-SHA256 of the received body under
\* that secret; a header computed over another body or under another key is
\* answered 403.
C15_SignatureGate ==
    (svc.op = "signature_required" /\ svc.secret # NoSecret)
        => /\ svc.ran <=> svc.header = SignedHeader(svc.secret, svc.body)
           /\ \A k \in SignerKeys, b \in Bodies :
                 (svc.header = SignedHeader(k, b) /\ (k # svc.secret \/ b # svc.body))
                     => (svc.status = 403 /\ ~svc.ran)

\* a body arriving with the signature of another body is answered 403
C15_Witness ==
    /\ svc.op = "signature_required"
    /\ svc.secret = "k1" /\ svc.body = "b2"
    /\ svc.header = SignedHeader("k1", "b1")
    /\ svc.status = 403 /\ ~svc.ran

\* a header of the form sha256=<value>: one "=", after the name sha256
WellFormedHeader(h) ==
    /\ Len(h) >= 2
    /\ h[1] = "sha256" /\ h[2] = "="
    /\ \A i \in 3..Len(h) : h[i] # "="

\* C17: without a configured secret the answer is 500 whatever the header;
\* with one, a missing or ill-formed header is answered 400; 403 is answered
\* only for a well-formed header that does not match; the wrapped handler
\* runs in none of these cases.
C17_SignatureErrors ==
    svc.op = "signature_required"
        => /\ svc.secret = NoSecret => (svc.status = 500 /\ ~svc.ran)
           /\ (svc.secret # NoSecret /\ ~WellFormedHeader(svc.header))
                 => (svc.status = 400 /\ ~svc.ran)
           /\ svc.status = 403
                 => /\ svc.secret # NoSecret
                    /\ WellFormedHeader(svc.header)
                    /\ svc.header # SignedHeader(svc.secret, svc.body)
                    /\ ~svc.ran

\* a correctly signed request while no secret is configured is answered 500
C17_Witness ==
    /\ svc.op = "signature_required"
    /\ svc.secret = NoSecret
    /\ svc.header = SignedHeader("k1", svc.body)
    /\ svc.status = 500 /\ ~svc.ran

\* C18: GET /webhook answers 200 with the challenge exactly when the mode is
\* 'subscribe' and the token is the configured one, 403 when mode and token
\* are both there and one of them is wrong, 400 when mode or token is missing.
C18_VerifyHandshake ==
    svc.op = "verify_webhook"
        => LET right == svc.mode = "subscribe" /\ svc.token = VERIFY_TOKEN
               both == Truthy(svc.mode) /\ Truthy(svc.token)
           IN  /\ right <=> (svc.status = 200 /\ svc.body = svc.challenge)
               /\ (both /\ ~right) => svc.status = 403
               /\ ~both => svc.status = 400

\* C19: the list get_conversation_history_for_gemini returns when its query
\* succeeds holds one entry for each message of the conversation and no other,
\* in ascending order of timestamp, with role 'user' for a user message and
\* 'model' for any other, and the message's content as its parts.
C19_HistoryByTimestamp ==
    (svc.op = "get_conversation_history_for_gemini" /\ svc.ok)
        => LET ids == {k \in 1..Len(messages) :
                          messages[k].conversation_id = svc.conversation_id}
               n == Len(svc.history)
           IN  /\ n = Cardinality(ids) /\ Len(svc.rows) = n
               /\ {svc.rows[i] : i \in 1..n} = ids
               /\ \A i, j \in 1..n :
                     i < j => messages[svc.rows[i]].timestamp
                                 <= messages[svc.rows[j]].timestamp
               /\ \A i \in 1..n :
                     /\ svc.history[i].parts = <<messages[svc.rows[i]].content>>
                     /\ svc.history[i].role =
                           (IF messages[svc.rows[i]].sender_type = "user"
                            THEN "user" ELSE "model")

\* a bot message stored first with the later timestamp comes second in the history
C19_Witness ==
    /\ svc.op = "get_conversation_history_for_gemini" /\ svc.ok
    /\ svc.rows = <<2, 1>>
    /\ messages[1].timestamp > messages[2].timestamp
    /\ svc.history[1].role = "user" /\ svc.history[2].role = "model"

\* the calls of update_bot_statistic_* for a counter that returned True, over
\* the threads 1..n
RECURSIVE ReturnedTrue(_, _)
ReturnedTrue(counter, n) ==
    IF n = 0 THEN 0 ELSE upd[n].returned[counter] + ReturnedTrue(counter, n - 1)

\* C24: when no increment is in progress and no storage error has occurred,
\* each counter of the company's statistics row equals the number of
\* increments made of it.
C24_NoLostIncrement ==
    ((\A r \in Runs : upd[r].pc = "idle") /\ faults = 0)
        => \A i \in StatIds(StatCompany) : \A counter \in StatCounters :
               stats[i][counter] = ReturnedTrue(counter, MaxRuns)

\* C25: a company that has User rows has a statistics row whose
\* total_recipients equals the number of those User rows.
C25_RecipientsCounted ==
    \A c \in 1..Len(companies) :
        LET members == {u \in 1..Len(users) : users[u].company_id = c}
        IN  members # {}
                => \E i \in StatIds(c) : stats[i].total_recipients = Cardinality(members)

\* C21: a request whose payload is a status update ends at once with HTTP 200,
\* whether the route ignored it or the handler acknowledged it, and leaves
\* every stored row, the statistics, the sends and the AI calls as they were.
C21_StatusOnlyAcknowledged ==
    [][\A r \in Runs :
          (pc[r] = "idle" /\ pc'[r] # "idle" /\ req'[r].shape = "status")
              => /\ pc'[r] = "done"
                 /\ http'[r] = 200
                 /\ out'[r] \in {Returned(200), NotCalled}
                 /\ UNCHANGED <<dbVars, statVars, sent, aiLog, usr, conv, rec>>]_vars

\* a status update that reached the handler and was acknowledged
C21_Witness ==
    \E r \in Runs :
        /\ pc[r] = "done" /\ req[r].shape = "status"
        /\ out[r] = Returned(200) /\ http[r] = 200
        /\ sent[r] = <<>> /\ aiLog[r] = <<>>

\* C22: no call of the handler on a payload that lacks part of the expected
\* structure ends with an exception.
C22_MalformedNeverRaises ==
    \A r \in Runs :
        (pc[r] = "done" /\ ~req[r].contacts) => out[r].kind # "raise"

\* C23: a request with an unsupported payload is answered 400.
C23_UnsupportedIs400 ==
    \A r \in Runs :
        (pc[r] = "done" /\ req[r].shape = "unsupported") => http[r] = 400

\* C29: with every storage call succeeding, a message whose payload has no
\* contacts/profile entry is processed: its run resolves the company and the
\* sender and does not end with an exception before that.
C29_MissingProfileStillProcessed ==
    \A r \in Runs :
        (pc[r] = "done" /\ req[r].shape = "message" /\ ~req[r].contacts /\ faults = 0)
            => co[r] # None /\ usr[r] # None

\* C27: with every storage call succeeding and a booking link configured, a
\* run on a text with a meeting keyword ends with a ConversionEvent of category
\* meeting_request stored for its conversation and with the text that carries
\* the booking link sent.
C27_KeywordRecordsMeetingRequest ==
    \A r \in Runs :
        (pc[r] = "done" /\ handover[r] /\ calendly /\ faults = 0)
            => /\ \E i \in 1..Len(events) :
                     /\ events[i].conversation_id = conv[r]
                     /\ events[i].event_type = "meeting_request"
               /\ \E i \in 1..Len(sent[r]) : sent[r][i].text = HandoverText(TRUE)

\* C28: a run whose ConversionEvent could not be recorded (the keyword matched,
\* a link is configured, no event is stored for its conversation) and whose
\* inbound message was recorded has its reply recorded, linked to the inbound
\* row, and sent.
C28_EventFailureDoesNotBlockReply ==
    \A r \in Runs :
        (/\ pc[r] = "done" /\ handover[r] /\ calendly
         /\ \A i \in 1..Len(events) : events[i].conversation_id # conv[r]
         /\ rec[r].called /\ rec[r].result.row # None)
            => /\ LinkedBotRows(rec[r].result.row) # {}
               /\ sent[r] # <<>>

C30_AcknowledgedOnceRecorded ==
    (svc.op = "ChatResource.post" /\ svc.ret.row # None)
        => svc.code = 202 /\ svc.task

\* C31: the context generate_response builds for an inbound message already
\* recorded in the ledger holds that message once: as the entry appended last,
\* not among the history entries as well.
C31_CurrentMessageOnce ==
    svc.op = "generate_response"
        => /\ \A i \in 1..Len(svc.rows) : svc.rows[i] # svc.current
           /\ Cardinality({i \in 1..Len(svc.contents) :
                              /\ i > Len(PrimerMessages)
                              /\ svc.contents[i] = CurrentEntry(messages[svc.current].content)})
                  = 1

C33_RedeliveryRecordsNoSecondEvent ==
    (\A r \in Runs : handover[r] => req[r].meta = "m1") => Len(events) <= 1

\* C34: with every storage call succeeding, a run on a text with a meeting
\* keyword ends having made no AI call and having sent exactly one reply, the
\* fixed handover text, and the handler has returned.
C34_HandoverSkipsAiAndReplies ==
    \A r \in Runs :
        (pc[r] = "done" /\ handover[r] /\ faults = 0)
            => /\ aiLog[r] = <<>>
               /\ Len(sent[r]) = 1
               /\ sent[r][1].text = HandoverText(calendly)
               /\ out[r].kind = "return"

\* C35: every bot Message row answers a user Message row of the same
\* conversation that was recorded before it.
C35_BotRowsLinked ==
    \A k \in 1..Len(messages) :
        messages[k].sender_type = "bot"
            => \E x \in 1..(k - 1) :
                  /\ messages[k].response_to_message_id = x
                  /\ messages[x].sender_type = "user"
                  /\ messages[x].conversation_id = messages[k].conversation_id

C37_MediaFailureApologisesOnce ==
    \A r \in Runs :
        (\E i \in 1..Len(sent[r]) : sent[r][i].text = "apology")
            => /\ pc[r] = "done"
               /\ Len(sent[r]) = 1
               /\ ~rec[r].called
               /\ aiLog[r] = <<>>

\* an image whose media could not be fetched: one apology, nothing recorded
C37_Witness ==
    \E r \in Runs :
        /\ pc[r] = "done" /\ req[r].type = "image"
        /\ Len(sent[r]) = 1 /\ sent[r][1].text = "apology"
        /\ ~rec[r].called /\ Stored(req[r].meta) = {}

\* C38: a user Message row stored by handle_message lies in a conversation of
\* the user authenticated on the socket, and a call on a socket without an
\* entry in connected_users stores nothing.
C38_WritesOnlyOwnConversation ==
    svc.op = "handle_message"
        => /\ svc.wrote # None
                 => conversations[messages[svc.wrote].conversation_id].user_id = svc.user_id
           /\ svc.user_id = None => svc.wrote = None

\* the closed conversations of a pair
ClosedOf(u, c) ==
    {i \in 1..Len(conversations) :
        /\ conversations[i].user_id = u /\ conversations[i].company_id = c
        /\ conversations[i].status = "closed"}

C40_ConcurrentFirstContactKeepsBoth ==
    /\ \A i, j \in 1..Len(users) : users[i].wa_id = users[j].wa_id => i = j
    /\ \A r \in Runs :
          (pc[r] = "done" /\ req[r].type = "text" /\ co[r] # None /\ faults = 0)
              => usr[r] # None /\ rec[r].called

====
